---------------------------- MODULE Spec2Model ----------------------------
(***************************************************************************)
(* rmkit: project scaffolding and firmware packaging for RMK keyboards.     *)
(*                                                                         *)
(* The repository holds three crates:                                      *)
(*   chips/   the chip and board registry (chips/src/lib.rs)               *)
(*   rmkit/   the reworked tool: create, init, get-chip, get-project-name   *)
(*            and build (rmkit/src/*.rs)                                    *)
(*   src/     the root crate: create, init, get-chip, get-project-name      *)
(*                                                                         *)
(* Strings the code slices, joins or rewrites (names, chip names, paths)   *)
(* are sequences of one-character strings; enum values are strings.        *)
(***************************************************************************)
EXTENDS Integers, Sequences, FiniteSets, TLC

VARIABLES
  crate,        \* which binary runs: "rmkit" (rmkit/src) or "root" (src/)
  cmd,          \* the subcommand of this invocation
  init_args,    \* the arguments of `init` (project_name, chip, split, local_path, row2col)
  template,     \* the rmk dependency in the template's Cargo.toml, an Option
  doc,          \* the keyboard.toml document on disk
  target_dir,   \* the --target-dir argument, an Option<String>
  pc,           \* position of the main thread
  config,       \* KeyboardTomlConfig once read_keyboard_toml_config returned
  dirs,         \* directories created by this invocation
  steps,        \* the steps of parse_keyboard_toml performed, in order
  resolved,     \* parse_keyboard_toml's local `chip`, once the match has produced it
  project,      \* Option<ProjectInfo> returned by parse_keyboard_toml
  error,        \* Option<error> returned to main
  exit_code,    \* process exit status: -1 while running
  \* build_rmk / internal_build_rmk
  chip_info,    \* Option<ChipInfo> of keyboard.get_chip_info()
  todo,         \* the `binary` arguments of the internal_build_rmk calls still to make
  side,         \* the `binary` argument of the running internal_build_rmk call
  artifact,     \* Option<Artifact> cargo_build returned to the running call
  firmware_file,\* Option<String> cargo_objcopy returned to the running call
  log,          \* every external tool started by this invocation, in order
  writes,       \* every output file written by this invocation, in order: [path, side]
  \* cargo_build and its child process
  toolchain,    \* what the compiler may print: "any", "volume" or "clean"
  child,        \* "none", "running" or "exited"
  output,       \* the messages the running compiler prints on stdout, in order
  sent,         \* how many of them it has written to the pipe
  status_ok,    \* whether the compiler exits with status 0
  pipe,         \* the messages in the stdout pipe, oldest first
  cap,          \* capacity of the pipe, in messages
  messages,     \* the Vec the parent collects from Message::parse_stream
  \* create_project / init_project
  offered,      \* Option<Vec<Chip>>: the chips the chip prompt offered, if it ran
  manifest,     \* Option<rmk dependency> in the generated project's Cargo.toml
  temp_zip,     \* whether temp.zip exists in the project directory
  archive,      \* Option<archive>: what the download wrote to temp.zip (None: no zip archive)
  extracted,    \* Option<folder>: the archive folder the project's files were taken from
  \* earlier invocation, for comparing two builds
  prev          \* Option<[chip, stages]> of the last pass of the previous build

inputVars == <<crate, cmd, doc, init_args, template, target_dir, toolchain, cap>>
downloadVars == <<temp_zip, archive, extracted>>
scaffoldVars == <<offered, manifest, downloadVars>>
parseVars == <<dirs, steps, resolved, project>>
passVars == <<chip_info, todo, side, artifact, firmware_file>>
childVars == <<child, output, sent, status_ok, pipe, messages>>
buildVars == <<passVars, childVars, log, writes, prev>>

vars == <<inputVars, pc, config, error, exit_code, parseVars, passVars, childVars, log,
          writes, prev, scaffoldVars>>

---------------------------------------------------------------------------
(* Option<T> *)
None == [some |-> FALSE]
Some(v) == [some |-> TRUE, val |-> v]
IsSome(o) == o.some
IsNone(o) == ~o.some

---------------------------------------------------------------------------
(* chips/src/lib.rs *)

\* enum Board
Board ==
  {"NrfMicro", "BlueMicro840", "PuchiBle", "NiceNano", "NiceNanoV2", "XiaoBle", "Liatris",
   "EliteC", "ProMicro"}

\* Board's serde name (rename_all = "kebab-case"), which is what keyboard.toml spells.
BoardToString(board) ==
  CASE board = "NrfMicro" -> <<"n","r","f","-","m","i","c","r","o">>
    [] board = "BlueMicro840" -> <<"b","l","u","e","-","m","i","c","r","o","8","4","0">>
    [] board = "PuchiBle" -> <<"p","u","c","h","i","-","b","l","e">>
    [] board = "NiceNano" -> <<"n","i","c","e","-","n","a","n","o">>
    [] board = "NiceNanoV2" -> <<"n","i","c","e","-","n","a","n","o","-","v","2">>
    [] board = "XiaoBle" -> <<"x","i","a","o","-","b","l","e">>
    [] board = "Liatris" -> <<"l","i","a","t","r","i","s">>
    [] board = "EliteC" -> <<"e","l","i","t","e","-","c">>
    [] board = "ProMicro" -> <<"p","r","o","-","m","i","c","r","o">>

\* enum Chip: every known chip family, in declaration order.
CHIP_VARIANTS ==
  <<"AT32F415", "ATMEGA32", "BK7231N", "BK7231U", "BK7251", "BL602", "CH32V", "CSK4",
    "CSK6", "ESP32", "ESP32C2", "ESP32C3", "ESP32C5", "ESP32C6", "ESP32C61", "ESP32H2",
    "ESP32P4", "ESP32S2", "ESP32S3", "ESP8266", "FX2", "GD32F350", "GD32VF103", "KL32L2",
    "LPC55", "M0SENSE", "MIMXRT10XX", "MaixPlayU4", "NRF52", "NRF52832xxAA",
    "NRF52832xxAB", "NRF52833", "NRF52840", "RA4M1", "RP2040", "Rp2350ArmNs", "Rp2350ArmS",
    "Rp2350Riscv", "Rp2xxxAbsolute", "Rp2xxxData", "RTL8710A", "RTL8710B", "RTL8720C",
    "RTL8720D", "RZA1LU", "SAMD21", "SAMD51", "SAML21", "STM32F0", "STM32F1", "STM32F2",
    "STM32F3", "STM32F4", "STM32F407", "STM32F407VG", "STM32F411xC", "STM32F411xE",
    "STM32F7", "STM32G0", "STM32G4", "STM32H7", "STM32L0", "STM32L1", "STM32L4", "STM32L5",
    "STM32WB", "STM32WL", "XR809">>

Chip == {CHIP_VARIANTS[i] : i \in 1..Len(CHIP_VARIANTS)}

\* family_id of get_info, the 32-bit value written as its eight hex digits.
FamilyIdOf(family) ==
  CASE family = "ATMEGA32" -> "16573617"
    [] family = "SAML21" -> "1851780a"
    [] family = "NRF52" -> "1b57745f"
    [] family = "ESP32" -> "1c5f21b0"
    [] family = "STM32L1" -> "1e1f432d"
    [] family = "STM32L0" -> "202e3a91"
    [] family = "STM32WL" -> "21460ff0"
    [] family = "RTL8710B" -> "22e0d6fc"
    [] family = "LPC55" -> "2abc77ec"
    [] family = "STM32G0" -> "300f5633"
    [] family = "GD32F350" -> "31d228c6"
    [] family = "RTL8720D" -> "3379cfe2"
    [] family = "STM32L5" -> "04240bdf"
    [] family = "STM32G4" -> "4c71240a"
    [] family = "MIMXRT10XX" -> "4fb2d5bd"
    [] family = "XR809" -> "51e903a8"
    [] family = "STM32F7" -> "53b80f00"
    [] family = "SAMD51" -> "55114460"
    [] family = "STM32F4" -> "57755a57"
    [] family = "FX2" -> "5a18069b"
    [] family = "STM32F2" -> "5d1a0a2e"
    [] family = "STM32F1" -> "5ee21072"
    [] family = "NRF52833" -> "621e937a"
    [] family = "STM32F0" -> "647824b6"
    [] family = "BK7231U" -> "675a40b0"
    [] family = "SAMD21" -> "68ed2b88"
    [] family = "BK7251" -> "6a82cc42"
    [] family = "STM32F3" -> "6b846188"
    [] family = "STM32F407" -> "6d0922fa"
    [] family = "STM32H7" -> "6db66082"
    [] family = "STM32WB" -> "70d16653"
    [] family = "BK7231N" -> "7b3ef230"
    [] family = "ESP8266" -> "7eab61ed"
    [] family = "KL32L2" -> "7f83e793"
    [] family = "STM32F407VG" -> "8fb060fe"
    [] family = "RTL8710A" -> "9fffd543"
    [] family = "NRF52840" -> "ada52840"
    [] family = "ESP32S2" -> "bfdd4eee"
    [] family = "ESP32S3" -> "c47e5767"
    [] family = "ESP32C3" -> "d42ba06c"
    [] family = "ESP32C2" -> "2b88d29c"
    [] family = "ESP32H2" -> "332726f6"
    [] family = "ESP32C6" -> "540ddf62"
    [] family = "ESP32P4" -> "3d308e94"
    [] family = "ESP32C5" -> "f71c0343"
    [] family = "ESP32C61" -> "77d850c4"
    [] family = "BL602" -> "de1270b7"
    [] family = "RTL8720C" -> "e08f7564"
    [] family = "RP2040" -> "e48bff56"
    [] family = "Rp2xxxAbsolute" -> "e48bff57"
    [] family = "Rp2xxxData" -> "e48bff58"
    [] family = "Rp2350ArmS" -> "e48bff59"
    [] family = "Rp2350Riscv" -> "e48bff5a"
    [] family = "Rp2350ArmNs" -> "e48bff5b"
    [] family = "STM32L4" -> "00ff6919"
    [] family = "GD32VF103" -> "9af03e33"
    [] family = "CSK4" -> "4f6ace52"
    [] family = "CSK6" -> "6e7348a8"
    [] family = "M0SENSE" -> "11de784a"
    [] family = "MaixPlayU4" -> "4b684d71"
    [] family = "RZA1LU" -> "9517422f"
    [] family = "STM32F411xE" -> "2dc309c5"
    [] family = "STM32F411xC" -> "06d1097b"
    [] family = "NRF52832xxAA" -> "72721d4e"
    [] family = "NRF52832xxAB" -> "6f752678"
    [] family = "AT32F415" -> "a0c97b8e"
    [] family = "CH32V" -> "699b62ec"
    [] family = "RA4M1" -> "7be8976d"

\* split_support of get_info.
SplitSupportOf(family) == family \in {"NRF52840", "RP2040"}

\* impl Display for Chip: the serde name, all lowercase, one character per element.
ChipToString(chip) ==
  CASE chip = "AT32F415" -> <<"a","t","3","2","f","4","1","5">>
    [] chip = "ATMEGA32" -> <<"a","t","m","e","g","a","3","2">>
    [] chip = "BK7231N" -> <<"b","k","7","2","3","1","n">>
    [] chip = "BK7231U" -> <<"b","k","7","2","3","1","u">>
    [] chip = "BK7251" -> <<"b","k","7","2","5","1">>
    [] chip = "BL602" -> <<"b","l","6","0","2">>
    [] chip = "CH32V" -> <<"c","h","3","2","v">>
    [] chip = "CSK4" -> <<"c","s","k","4">>
    [] chip = "CSK6" -> <<"c","s","k","6">>
    [] chip = "ESP32" -> <<"e","s","p","3","2">>
    [] chip = "ESP32C2" -> <<"e","s","p","3","2","c","2">>
    [] chip = "ESP32C3" -> <<"e","s","p","3","2","c","3">>
    [] chip = "ESP32C5" -> <<"e","s","p","3","2","c","5">>
    [] chip = "ESP32C6" -> <<"e","s","p","3","2","c","6">>
    [] chip = "ESP32C61" -> <<"e","s","p","3","2","c","6","1">>
    [] chip = "ESP32H2" -> <<"e","s","p","3","2","h","2">>
    [] chip = "ESP32P4" -> <<"e","s","p","3","2","p","4">>
    [] chip = "ESP32S2" -> <<"e","s","p","3","2","s","2">>
    [] chip = "ESP32S3" -> <<"e","s","p","3","2","s","3">>
    [] chip = "ESP8266" -> <<"e","s","p","8","2","6","6">>
    [] chip = "FX2" -> <<"f","x","2">>
    [] chip = "GD32F350" -> <<"g","d","3","2","f","3","5","0">>
    [] chip = "GD32VF103" -> <<"g","d","3","2","v","f","1","0","3">>
    [] chip = "KL32L2" -> <<"k","l","3","2","l","2">>
    [] chip = "LPC55" -> <<"l","p","c","5","5">>
    [] chip = "M0SENSE" -> <<"m","0","s","e","n","s","e">>
    [] chip = "MIMXRT10XX" -> <<"m","i","m","x","r","t","1","0","x","x">>
    [] chip = "MaixPlayU4" -> <<"m","a","i","x","p","l","a","y","u","4">>
    [] chip = "NRF52" -> <<"n","r","f","5","2">>
    [] chip = "NRF52832xxAA" -> <<"n","r","f","5","2","8","3","2","x","x","a","a">>
    [] chip = "NRF52832xxAB" -> <<"n","r","f","5","2","8","3","2","x","x","a","b">>
    [] chip = "NRF52833" -> <<"n","r","f","5","2","8","3","3">>
    [] chip = "NRF52840" -> <<"n","r","f","5","2","8","4","0">>
    [] chip = "RA4M1" -> <<"r","a","4","m","1">>
    [] chip = "RP2040" -> <<"r","p","2","0","4","0">>
    [] chip = "Rp2350ArmNs" -> <<"r","p","2","3","5","0","a","r","m","n","s">>
    [] chip = "Rp2350ArmS" -> <<"r","p","2","3","5","0","a","r","m","s">>
    [] chip = "Rp2350Riscv" -> <<"r","p","2","3","5","0","r","i","s","c","v">>
    [] chip = "Rp2xxxAbsolute" -> <<"r","p","2","x","x","x","a","b","s","o","l","u","t","e">>
    [] chip = "Rp2xxxData" -> <<"r","p","2","x","x","x","d","a","t","a">>
    [] chip = "RTL8710A" -> <<"r","t","l","8","7","1","0","a">>
    [] chip = "RTL8710B" -> <<"r","t","l","8","7","1","0","b">>
    [] chip = "RTL8720C" -> <<"r","t","l","8","7","2","0","c">>
    [] chip = "RTL8720D" -> <<"r","t","l","8","7","2","0","d">>
    [] chip = "RZA1LU" -> <<"r","z","a","1","l","u">>
    [] chip = "SAMD21" -> <<"s","a","m","d","2","1">>
    [] chip = "SAMD51" -> <<"s","a","m","d","5","1">>
    [] chip = "SAML21" -> <<"s","a","m","l","2","1">>
    [] chip = "STM32F0" -> <<"s","t","m","3","2","f","0">>
    [] chip = "STM32F1" -> <<"s","t","m","3","2","f","1">>
    [] chip = "STM32F2" -> <<"s","t","m","3","2","f","2">>
    [] chip = "STM32F3" -> <<"s","t","m","3","2","f","3">>
    [] chip = "STM32F4" -> <<"s","t","m","3","2","f","4">>
    [] chip = "STM32F407" -> <<"s","t","m","3","2","f","4","0","7">>
    [] chip = "STM32F407VG" -> <<"s","t","m","3","2","f","4","0","7","v","g">>
    [] chip = "STM32F411xC" -> <<"s","t","m","3","2","f","4","1","1","x","c">>
    [] chip = "STM32F411xE" -> <<"s","t","m","3","2","f","4","1","1","x","e">>
    [] chip = "STM32F7" -> <<"s","t","m","3","2","f","7">>
    [] chip = "STM32G0" -> <<"s","t","m","3","2","g","0">>
    [] chip = "STM32G4" -> <<"s","t","m","3","2","g","4">>
    [] chip = "STM32H7" -> <<"s","t","m","3","2","h","7">>
    [] chip = "STM32L0" -> <<"s","t","m","3","2","l","0">>
    [] chip = "STM32L1" -> <<"s","t","m","3","2","l","1">>
    [] chip = "STM32L4" -> <<"s","t","m","3","2","l","4">>
    [] chip = "STM32L5" -> <<"s","t","m","3","2","l","5">>
    [] chip = "STM32WB" -> <<"s","t","m","3","2","w","b">>
    [] chip = "STM32WL" -> <<"s","t","m","3","2","w","l">>
    [] chip = "XR809" -> <<"x","r","8","0","9">>

\* enum FirmwareFormat
FirmwareFormat == {"Bin", "Elf", "Hex", "Uf2"}

\* get_chip whose Liatris arm was merged into the nRF52840 arm.
get_chip_LiatrisNrf(board) ==
  CASE board \in {"NrfMicro", "BlueMicro840", "PuchiBle", "NiceNano", "NiceNanoV2", "XiaoBle",
                  "Liatris"}
         -> "NRF52840"
    [] board \in {"EliteC", "ProMicro"} -> "ATMEGA32"

\* get_chip: the chip a board carries.
get_chip(board) ==
  CASE board \in {"NrfMicro", "BlueMicro840", "PuchiBle", "NiceNano", "NiceNanoV2", "XiaoBle"}
         -> "NRF52840"
    [] board = "Liatris" -> "RP2040"
    [] board \in {"EliteC", "ProMicro"} -> "ATMEGA32"

\* get_info whose Rp2350ArmS arm was copied from the RP2040 arm with the id left as it was.
get_info_CopiedArm(family) ==
  [family_id |-> FamilyIdOf(IF family = "Rp2350ArmS" THEN "RP2040" ELSE family),
   name |-> ChipToString(family),
   firmware_formats |-> <<>>,
   split_support |-> SplitSupportOf(family),
   chip |-> family]

\* get_info: the ChipInfo of a chip.  Every arm declares firmware_formats: vec![].
get_info(family) ==
  [family_id |-> FamilyIdOf(family),
   name |-> ChipToString(family),
   firmware_formats |-> <<>>,
   split_support |-> SplitSupportOf(family),
   chip |-> family]

\* get_all_chip_info: get_info over CHIP_VARIANTS, in order.
get_all_chip_info == [i \in 1..Len(CHIP_VARIANTS) |-> get_info(CHIP_VARIANTS[i])]

---------------------------------------------------------------------------
(* String helpers: str::replace, str::starts_with, &s[..n], to_lowercase *)

UPPER ==
  <<"A","B","C","D","E","F","G","H","I","J","K","L","M","N","O","P","Q","R","S","T","U",
    "V","W","X","Y","Z">>

LOWER ==
  <<"a","b","c","d","e","f","g","h","i","j","k","l","m","n","o","p","q","r","s","t","u",
    "v","w","x","y","z">>

LowerChar(c) ==
  IF \E i \in 1..Len(UPPER) : UPPER[i] = c
    THEN LOWER[CHOOSE i \in 1..Len(UPPER) : UPPER[i] = c]
    ELSE c

to_lowercase(s) == [i \in 1..Len(s) |-> LowerChar(s[i])]

\* s.replace(from, to) for one-character patterns
replace(s, from, to) == [i \in 1..Len(s) |-> IF s[i] = from THEN to ELSE s[i]]

starts_with(s, p) == Len(s) >= Len(p) /\ SubSeq(s, 1, Len(p)) = p

\* &s[..n] panics when n is past the end of s
SliceToPanics(s, n) == n > Len(s)
SliceTo(s, n) == SubSeq(s, 1, n)

STM32 == <<"s","t","m","3","2">>
SPLIT == <<"s","p","l","i","t">>

---------------------------------------------------------------------------
(* Errors: the kind of the message and the values its text interpolates *)
Err(kind, args) == [kind |-> kind, args |-> args]

---------------------------------------------------------------------------
(* read_keyboard_toml_config: fs::read_to_string, then toml::from_str *)

\* Deserializing Option<Board> / Option<Chip> in the rmkit crate: the text must be
\* the serde name of a variant.
IsBoardText(t) == \E b \in Board : BoardToString(b) = t
IsChipText(t) == \E c \in Chip : ChipToString(c) = t
ParseBoard(t) == CHOOSE b \in Board : BoardToString(b) = t
ParseChip(t) == CHOOSE c \in Chip : ChipToString(c) = t

\* rmkit crate: keyboard.board is Option<Board>, keyboard.chip is Option<Chip>.
read_keyboard_toml_config(d) ==
  IF ~d.readable THEN [ok |-> FALSE, err |-> Err("ReadFailed", <<>>)]
  ELSE IF \/ (IsSome(d.board) /\ ~IsBoardText(d.board.val))
          \/ (IsSome(d.chip) /\ ~IsChipText(d.chip.val))
    THEN [ok |-> FALSE, err |-> Err("ParseFailed", <<>>)]
  ELSE [ok |-> TRUE,
        val |-> [name |-> d.name,
                 board |-> IF IsSome(d.board) THEN Some(ParseBoard(d.board.val)) ELSE None,
                 chip |-> IF IsSome(d.chip) THEN Some(ParseChip(d.chip.val)) ELSE None,
                 matrix |-> d.matrix,
                 split |-> d.split,
                 light |-> d.light,
                 firmware_format |-> d.firmware_format]]

\* root crate: keyboard.board and keyboard.chip are Option<String>.
root_read_keyboard_toml_config(d) ==
  IF ~d.readable THEN [ok |-> FALSE, err |-> Err("ReadFailed", <<>>)]
  ELSE [ok |-> TRUE,
        val |-> [name |-> d.name,
                 board |-> d.board,
                 chip |-> d.chip,
                 matrix |-> d.matrix,
                 split |-> d.split,
                 light |-> d.light,
                 firmware_format |-> d.firmware_format]]

---------------------------------------------------------------------------
(* parse_keyboard_toml *)

\* ResolveChip whose (None, None) arm falls back to a default chip.
ResolveChip_DefaultChip(c) ==
  IF IsNone(c.board) /\ IsNone(c.chip) THEN [ok |-> TRUE, val |-> "RP2040"]
  ELSE IF IsNone(c.chip) THEN [ok |-> TRUE, val |-> get_chip(c.board.val)]
  ELSE IF IsNone(c.board) THEN [ok |-> TRUE, val |-> c.chip.val]
  ELSE IF c.chip.val = get_chip(c.board.val) THEN [ok |-> TRUE, val |-> c.chip.val]
  ELSE [ok |-> FALSE,
        err |-> Err("ConflictingChipSpecification",
                    <<c.board.val, get_chip(c.board.val), c.chip.val>>)]

\* ResolveChip with the (Some(board), Some(chip)) arm taking the chip as given.
ResolveChip_TrustsChip(c) ==
  IF IsNone(c.board) /\ IsNone(c.chip)
    THEN [ok |-> FALSE, err |-> Err("MissingChipSpecification", <<>>)]
  ELSE IF IsSome(c.board) /\ IsNone(c.chip)
    THEN [ok |-> TRUE, val |-> get_chip(c.board.val)]
  ELSE [ok |-> TRUE, val |-> c.chip.val]

\* rmkit/src/keyboard_toml.rs: the match on (board, chip)
ResolveChip(c) ==
  IF IsNone(c.board) /\ IsNone(c.chip)
    THEN [ok |-> FALSE, err |-> Err("MissingChipSpecification", <<>>)]
  ELSE IF IsSome(c.board) /\ IsNone(c.chip)
    THEN [ok |-> TRUE, val |-> get_chip(c.board.val)]
  ELSE IF IsNone(c.board) /\ IsSome(c.chip)
    THEN [ok |-> TRUE, val |-> c.chip.val]
  ELSE LET board_chip == get_chip(c.board.val)
       IN  IF c.chip.val = board_chip
             THEN [ok |-> TRUE, val |-> c.chip.val]
             ELSE [ok |-> FALSE,
                   err |-> Err("ConflictingChipSpecification",
                               <<c.board.val, board_chip, c.chip.val>>)]

\* crate::chip::get_board_chip_map of the root crate: lowercase board name to chip name.
get_board_chip_map == [b \in Board |-> ChipToString(get_chip(b))]

BoardMapHas(t) == \E b \in Board : BoardToString(b) = t
BoardMapGet(t) == get_board_chip_map[CHOOSE b \in Board : BoardToString(b) = t]

\* src/keyboard_toml.rs: the match on (board, chip)
RootResolveChip(c) ==
  IF IsNone(c.board) /\ IsNone(c.chip)
    THEN [ok |-> FALSE, err |-> Err("MissingChipSpecification", <<>>)]
  ELSE IF IsSome(c.board) /\ IsNone(c.chip)
    THEN IF BoardMapHas(to_lowercase(c.board.val))
           THEN [ok |-> TRUE, val |-> BoardMapGet(to_lowercase(c.board.val))]
           ELSE [ok |-> FALSE, err |-> Err("UnsupportedBoard", <<c.board.val>>)]
  ELSE IF IsNone(c.board) /\ IsSome(c.chip)
    THEN [ok |-> TRUE, val |-> to_lowercase(c.chip.val)]
  ELSE [ok |-> FALSE, err |-> Err("BoardAndChipBothSpecified", <<>>)]

\* Row2col that looks at the unibody matrix only.
Row2col_IgnoresSplit(c) == IF IsSome(c.matrix) THEN c.matrix.val.row2col ELSE FALSE

\* let row2col = ...
Row2col(c) ==
  IF IsSome(c.matrix) THEN c.matrix.val.row2col
  ELSE IF IsSome(c.split) THEN c.split.val.central.matrix.row2col
  ELSE FALSE

\* MatrixType with the (Some(_), Some(_)) arm folded into the split arm.
MatrixType_SplitWins(c) ==
  IF IsNone(c.matrix) /\ IsNone(c.split)
    THEN [ok |-> FALSE, err |-> Err("MissingMatrixSpecification", <<>>)]
  ELSE IF IsSome(c.split) THEN [ok |-> TRUE, val |-> "split"]
  ELSE [ok |-> TRUE, val |-> "normal"]

\* let matrix_type = match (matrix, split)
MatrixType(c) ==
  IF IsNone(c.matrix) /\ IsNone(c.split)
    THEN [ok |-> FALSE, err |-> Err("MissingMatrixSpecification", <<>>)]
  ELSE IF IsNone(c.matrix) /\ IsSome(c.split) THEN [ok |-> TRUE, val |-> "split"]
  ELSE IF IsSome(c.matrix) /\ IsNone(c.split) THEN [ok |-> TRUE, val |-> "normal"]
  ELSE [ok |-> FALSE, err |-> Err("ConflictingMatrixSpecification", <<>>)]

\* Folder that drops the suffix of split keyboards.
Folder_NoSuffix(chip_name, matrix_type) == chip_name

\* let folder = if matrix_type == "split" { format!("{}_{}", chip, matrix_type) } ...
Folder(chip_name, matrix_type) ==
  IF matrix_type = "split" THEN chip_name \o <<"_">> \o SPLIT ELSE chip_name

\* let project_name = keyboard.name.replace(" ", "_")
ProjectName(c) == replace(c.name, " ", "_")

\* let target_dir = if target_dir.is_none() { project_name } else { target_dir.unwrap() }
ProjectDir(c, td) == IF IsNone(td) THEN ProjectName(c) ELSE td.val

\* root crate: let uf2_key = if chip.starts_with("stm32") { chip[..7] } else { chip }
Uf2KeyPanics(chip_name) == starts_with(chip_name, STM32) /\ SliceToPanics(chip_name, 7)
Uf2Key(chip_name) == IF starts_with(chip_name, STM32) THEN SliceTo(chip_name, 7) ELSE chip_name

\* Ok(ProjectInfo { .. }) of the rmkit crate
ProjectInfo(c, td, ch, matrix_type) ==
  [project_name |-> ProjectName(c),
   target_dir |-> ProjectDir(c, td),
   remote_folder |-> Folder(ChipToString(ch), matrix_type),
   chip |-> ch,
   row2col |-> Row2col(c)]

\* Ok(ProjectInfo { .. }) of the root crate, whose chip is the chip's name
RootProjectInfo(c, td, ch, matrix_type) ==
  [project_name |-> ProjectName(c),
   target_dir |-> ProjectDir(c, td),
   remote_folder |-> Folder(ch, matrix_type),
   chip |-> ch,
   uf2_key |-> Uf2Key(ch),
   row2col |-> Row2col(c)]

---------------------------------------------------------------------------
(* The steps of parse_keyboard_toml, as main runs them for get-chip and     *)
(* get-project-name.                                                        *)

\* let keyboard_toml_config = read_keyboard_toml_config(keyboard_toml)?;
ParseRead ==
  /\ pc = "parse_read"
  /\ LET r == IF crate = "rmkit" THEN read_keyboard_toml_config(doc)
              ELSE root_read_keyboard_toml_config(doc)
     IN  IF r.ok
           THEN /\ config' = Some(r.val)
                /\ pc' = "parse_mkdir"
                /\ error' = error
           ELSE /\ error' = Some(r.err)
                /\ pc' = "main_return"
                /\ config' = config
  /\ steps' = Append(steps, "read")
  /\ UNCHANGED <<inputVars, scaffoldVars, dirs, resolved, project, exit_code, buildVars>>

\* ParseCreateDir that reports the failure and carries on with the checks.
ParseCreateDir_CarriesOn ==
  /\ pc = "parse_mkdir"
  /\ \E created \in BOOLEAN :
       IF created
         THEN /\ dirs' = dirs \cup {ProjectDir(config.val, target_dir)}
              /\ error' = error
         ELSE /\ error' = Some(Err("ProjectDirectoryError", <<>>))
              /\ dirs' = dirs
  /\ pc' = "parse_chip"
  /\ steps' = Append(steps, "mkdir")
  /\ UNCHANGED <<inputVars, scaffoldVars, config, resolved, project, exit_code, buildVars>>

\* if let Err(e) = fs::create_dir_all(&project_dir) { eprintln!(..); process::exit(1); }
ParseCreateDir ==
  /\ pc = "parse_mkdir"
  /\ \E created \in BOOLEAN :
       IF created
         THEN /\ dirs' = dirs \cup {ProjectDir(config.val, target_dir)}
              /\ pc' = "parse_chip"
              /\ UNCHANGED <<error, exit_code>>
         ELSE /\ error' = Some(Err("ProjectDirectoryError", <<>>))
              /\ exit_code' = 1
              /\ pc' = "exited"
              /\ dirs' = dirs
  /\ steps' = Append(steps, "mkdir")
  /\ UNCHANGED <<inputVars, scaffoldVars, config, resolved, project, buildVars>>

\* let chip = match (board, chip) { .. }?;
ParseChipStep ==
  /\ pc = "parse_chip"
  /\ LET r == IF crate = "rmkit" THEN ResolveChip(config.val) ELSE RootResolveChip(config.val)
     IN  IF r.ok
           THEN /\ resolved' = Some(r.val)
                /\ pc' = "parse_matrix"
                /\ error' = error
           ELSE /\ error' = Some(r.err)
                /\ pc' = "main_return"
                /\ resolved' = resolved
  /\ steps' = Append(steps, "chip")
  /\ UNCHANGED <<inputVars, scaffoldVars, config, dirs, project, exit_code, buildVars>>

\* let row2col = ..; let matrix_type = match (matrix, split) { .. }?; ..; Ok(ProjectInfo)
ParseMatrixStep ==
  /\ pc = "parse_matrix"
  /\ LET r == MatrixType(config.val)
     IN  IF ~r.ok
           THEN /\ error' = Some(r.err)
                /\ pc' = "main_return"
                /\ UNCHANGED <<project, exit_code>>
         ELSE IF crate = "root" /\ Uf2KeyPanics(resolved.val)
           THEN /\ error' = Some(Err("Panic", <<>>))
                /\ exit_code' = 101
                /\ pc' = "exited"
                /\ project' = project
         ELSE /\ project' = Some(IF crate = "rmkit"
                                   THEN ProjectInfo(config.val, target_dir, resolved.val, r.val)
                                   ELSE RootProjectInfo(config.val, target_dir, resolved.val, r.val))
              /\ pc' = IF cmd = "create" THEN "template" ELSE "main_return"
              /\ UNCHANGED <<error, exit_code>>
  /\ steps' = Append(steps, "matrix")
  /\ UNCHANGED <<inputVars, scaffoldVars, config, dirs, resolved, buildVars>>

\* main: print the chip or the project name (or nothing, for build), or return the
\* error; the process exits with status 1 on an error and 0 otherwise.
MainReturn ==
  /\ pc = "main_return"
  /\ exit_code' = IF IsSome(error) THEN 1 ELSE 0
  /\ pc' = "exited"
  /\ UNCHANGED <<inputVars, scaffoldVars, config, error, parseVars, buildVars>>

---------------------------------------------------------------------------
(* rmkit/src/cargo_build.rs *)

CENTRAL == <<"c","e","n","t","r","a","l">>
PERIPHERAL == <<"p","e","r","i","p","h","e","r","a","l">>
NO_BINARY == <<"n","o"," ","b","i","n","a","r","y">>

unwrap_or(o, d) == IF IsSome(o) THEN o.val ELSE d

\* A Message::CompilerArtifact: target.name, whether target.kind holds TargetKind::Bin,
\* executable, filenames, and whether package_id is a workspace member.
Artifact(name, kind_bin, executable, filenames, member) ==
  [type |-> "CompilerArtifact", name |-> name, kind_bin |-> kind_bin,
   executable |-> executable, filenames |-> filenames, member |-> member]

\* Any other message (CompilerMessage, BuildFinished, TextLine, ..)
OtherMessage == [type |-> "Other"]

\* An Err item of Message::parse_stream: reading the pipe failed
StreamError == [type |-> "Err"]

\* the condition under which the loop takes an artifact as the wanted one
Matches(bin, a) ==
  \/ /\ a.member
     /\ a.name = unwrap_or(bin, NO_BINARY)
     /\ IsSome(a.executable)
  \/ a.kind_bin

\* for message in messages { match message? { .. } }, from message i on, with
\* target_artifact as found so far; then the is_none check and Ok(target_artifact)
RECURSIVE SelectFrom(_, _, _, _)
SelectFrom(bin, msgs, i, target_artifact) ==
  IF i > Len(msgs)
    THEN IF IsNone(target_artifact)
           THEN [ok |-> FALSE, err |-> Err("NoArtifactProduced", <<>>)]
           ELSE [ok |-> TRUE, val |-> target_artifact]
  ELSE IF msgs[i].type = "Err"
    THEN [ok |-> FALSE, err |-> Err("StreamError", <<>>)]
  ELSE IF msgs[i].type = "CompilerArtifact" /\ Matches(bin, msgs[i])
    THEN IF IsSome(target_artifact)
           THEN [ok |-> FALSE, err |-> Err("AmbiguousArtifact", <<>>)]
           ELSE SelectFrom(bin, msgs, i + 1, Some(msgs[i]))
  ELSE SelectFrom(bin, msgs, i + 1, target_artifact)

\* CargoResult that selects the artifact whatever the exit status was.
CargoResult_IgnoresStatus(bin, msgs, success) == SelectFrom(bin, msgs, 1, None)

\* cargo_build from `let status = child.wait()?` on: the status check, then the loop
CargoResult(bin, msgs, success) ==
  IF ~success
    THEN [ok |-> FALSE, err |-> Err("BuildFailed", <<>>)]
    ELSE SelectFrom(bin, msgs, 1, None)

\* cargo_build that waits for the child before it collects the messages.
CargoStepAfter_WaitFirst(p) ==
  CASE p = "spawn" -> "wait"
    [] p = "wait" -> "drain"
    [] p = "drain" -> "select"

\* The order of cargo_build's blocking steps: spawn, collect the stream to its end
\* (drain), child.wait(), then the status check and the selection.
CargoStepAfter(p) ==
  CASE p = "spawn" -> "drain"
    [] p = "drain" -> "wait"
    [] p = "wait" -> "select"

---------------------------------------------------------------------------
(* rmkit/src/cargo_objcopy.rs *)

\* let (format, ending) = match format { .. }?
ObjcopyArgs(format) ==
  CASE format = "Bin" -> [ok |-> TRUE, selector |-> <<"i","h","e","x">>, ending |-> <<"h","e","x">>]
    [] format = "Hex" -> [ok |-> TRUE, selector |-> <<"b","i","n","a","r","y">>, ending |-> <<"b","i","n">>]
    [] format \in {"Elf", "Uf2"} -> [ok |-> FALSE, err |-> Err("FormatNotSupported", <<>>)]

\* let output_path = format!("{}.{}", out_name, ending)
OutputPath(out_name, ending) == out_name \o <<".">> \o ending

---------------------------------------------------------------------------
(* rmkit/src/rmk_build.rs *)

\* keyboard.get_chip_info(): the ChipInfo of the effective chip, or the error of the
\* (board, chip) resolution.
get_chip_info(c) ==
  LET r == ResolveChip(c)
  IN  IF r.ok THEN [ok |-> TRUE, val |-> get_info(r.val)] ELSE r

\* Passes that builds the peripheral side before the central side.
Passes_PeripheralFirst(c) ==
  IF IsSome(c.split) THEN <<Some(PERIPHERAL), Some(CENTRAL)>> ELSE <<None>>

\* Passes that never takes the split branch.
Passes_UnibodyOnly(c) == <<None>>

\* the internal_build_rmk calls build_rmk makes, by their `binary` argument
Passes(c) == IF IsSome(c.split) THEN <<Some(CENTRAL), Some(PERIPHERAL)>> ELSE <<None>>

\* FileOf that falls back to the last declared file of the artifact.
FileOf_Last(a) ==
  IF IsSome(a.executable) THEN a.executable.val ELSE a.filenames[Len(a.filenames)]

\* let file = match &artifact.executable { Some(val) => val, None => &artifact.filenames[0] }
FileOf(a) == IF IsSome(a.executable) THEN a.executable.val ELSE a.filenames[1]

\* OutName that names every pass's output after the keyboard alone.
OutName_NoSide(c, binary) == c.name

\* let name = match binary { Some(binary) => format!("{name}_{binary}"), None => name }
OutName(c, binary) == IF IsSome(binary) THEN c.name \o <<"_">> \o binary.val ELSE c.name

\* ObjcopyFormat that sends the native format through the converter as well.
ObjcopyFormat_ElfConverted(c) ==
  IF c.firmware_format = "Bin" THEN Some("Bin") ELSE Some("Hex")

\* let objcopy_format = match keyboard_toml.keyboard.firmware_format { .. }
ObjcopyFormat(c) ==
  CASE c.firmware_format = "Bin" -> Some("Bin")
    [] c.firmware_format = "Elf" -> None
    [] c.firmware_format \in {"Hex", "Uf2"} -> Some("Hex")

\* Uf2Output that reuses the name of the converter's output file.
Uf2Output_Intermediate(name) == name \o <<".">> \o <<"b","i","n">>

\* let uf2_output = format!("{name}.uf2")
Uf2Output(name) == name \o <<".">> \o <<"u","f","2">>

\* Uf2ChipArg that hands the packager no chip metadata.
Uf2ChipArg_None(info) == None

\* the chip argument of hex_to_uf2_file: &Some(chip_info.clone())
Uf2ChipArg(info) == Some(info)

\* where the main thread goes when an internal_build_rmk call returned Ok(())
AfterPass(rest) == IF rest = <<>> THEN "main_return" ELSE "cargo"

\* AfterFailure that swallows the error of a pass and goes on to the next one.
AfterFailure_NextPass(rest) == IF Len(rest) > 0 THEN "cargo" ELSE "main_return"

\* where the main thread goes when a step of internal_build_rmk returned Err: the
\* `?` in internal_build_rmk and the `?` on its call in build_rmk return it to main
AfterFailure(rest) == "main_return"

\* The stages (external tools other than the compiler) started for pass `s`
RECURSIVE StagesOf(_, _)
StagesOf(l, s) ==
  IF l = <<>> THEN <<>>
  ELSE IF Head(l).tool # "cargo" /\ Head(l).side = s
    THEN <<Head(l)>> \o StagesOf(Tail(l), s)
    ELSE StagesOf(Tail(l), s)

ToolsOf(l) == [i \in 1..Len(l) |-> l[i].tool]

\* What the compiler may print, by toolchain, and the bounds on it.
MaxMsgs == 2
MaxVolume == 4
MaxCap == 2

BinCentral ==
  Artifact(CENTRAL, TRUE, Some("target/release/central"), <<"target/release/central">>, TRUE)
BinPeripheral ==
  Artifact(PERIPHERAL, TRUE, Some("target/release/peripheral"),
           <<"target/release/peripheral">>, TRUE)
ExampleCentral ==
  Artifact(CENTRAL, FALSE, Some("target/release/examples/central"),
           <<"target/release/examples/central">>, TRUE)
LibRmk ==
  Artifact(<<"r","m","k">>, FALSE, None, <<"target/release/librmk.rlib",
           "target/release/librmk.rmeta">>, FALSE)

\* a bin target reported without an executable ("executable": null)
BinUnlinked ==
  Artifact(CENTRAL, TRUE, None, <<"target/release/deps/central.rlib",
           "target/release/deps/central.rmeta">>, TRUE)

Messages == {BinCentral, BinPeripheral, ExampleCentral, LibRmk, OtherMessage, StreamError}

SeqsUpTo(S, n) == UNION {[1..k -> S] : k \in 0..n}

WantedBin(bin) == IF bin = Some(PERIPHERAL) THEN BinPeripheral ELSE BinCentral

CompilerOutputs(tc, bin) ==
  CASE tc = "any" -> SeqsUpTo(Messages, MaxMsgs) \cup {<<BinUnlinked>>, <<LibRmk, BinUnlinked>>}
    [] tc = "volume" -> {[i \in 1..k |-> OtherMessage] \o <<WantedBin(bin)>> : k \in 0..MaxVolume}
    [] tc = "clean" -> {<<LibRmk, WantedBin(bin)>>}

CompilerStatuses(tc) == IF tc = "clean" THEN {TRUE} ELSE BOOLEAN

SpawnOutcomes(tc) ==
  IF tc = "any" THEN {"MetadataFailed", "SpawnFailed", "spawned"} ELSE {"spawned"}

---------------------------------------------------------------------------
(* The steps of build_rmk *)

\* let keyboard_toml = read_keyboard_toml_config(path)?;
\* let chip_info = keyboard_toml.keyboard.get_chip_info()?;
\* and the choice between the split and the unibody branch
BuildRead ==
  /\ pc = "build_read"
  /\ LET r == read_keyboard_toml_config(doc)
         i == get_chip_info(r.val)
     IN  IF ~r.ok
           THEN /\ error' = Some(r.err)
                /\ pc' = "main_return"
                /\ UNCHANGED <<config, chip_info, todo>>
         ELSE IF ~i.ok
           THEN /\ config' = Some(r.val)
                /\ error' = Some(i.err)
                /\ pc' = "main_return"
                /\ UNCHANGED <<chip_info, todo>>
         ELSE /\ config' = Some(r.val)
              /\ chip_info' = Some(i.val)
              /\ todo' = Passes(r.val)
              /\ pc' = "cargo"
              /\ error' = error
  /\ UNCHANGED <<inputVars, scaffoldVars, exit_code, parseVars, side, artifact, firmware_file, childVars,
                 log, writes, prev>>

\* let mut child = cargo.spawn()?, after get_metadata()? and the argument list.
\* The compiler, once spawned, prints `out` and exits with success `s`.
CargoSpawn ==
  /\ pc = "cargo"
  /\ todo # <<>>
  /\ side' = Head(todo)
  /\ todo' = Tail(todo)
  /\ artifact' = None
  /\ firmware_file' = None
  /\ \E outcome \in SpawnOutcomes(toolchain) :
       IF outcome = "spawned"
         THEN /\ \E out \in CompilerOutputs(toolchain, Head(todo)),
                    s \in CompilerStatuses(toolchain) :
                   /\ output' = out
                   /\ status_ok' = s
              /\ child' = "running"
              /\ sent' = 0
              /\ pipe' = <<>>
              /\ messages' = <<>>
              /\ log' = Append(log, [tool |-> "cargo", side |-> Head(todo)])
              /\ pc' = CargoStepAfter("spawn")
              /\ error' = error
         ELSE /\ error' = Some(Err(outcome, <<>>))
              /\ pc' = AfterFailure(Tail(todo))
              /\ child' = "none"
              /\ output' = <<>>
              /\ sent' = 0
              /\ pipe' = <<>>
              /\ messages' = <<>>
              /\ UNCHANGED <<status_ok, log>>
  /\ UNCHANGED <<inputVars, scaffoldVars, config, exit_code, parseVars, chip_info, writes, prev>>

\* The compiler writes its next message to stdout; it blocks while the pipe is full.
ChildWrite ==
  /\ child = "running"
  /\ sent < Len(output)
  /\ Len(pipe) < cap
  /\ pipe' = Append(pipe, output[sent + 1])
  /\ sent' = sent + 1
  /\ UNCHANGED <<inputVars, scaffoldVars, pc, config, error, exit_code, parseVars, passVars, child, output,
                 status_ok, messages, log, writes, prev>>

\* The compiler has printed everything and exits, which closes its end of the pipe.
ChildExit ==
  /\ child = "running"
  /\ sent = Len(output)
  /\ child' = "exited"
  /\ UNCHANGED <<inputVars, scaffoldVars, pc, config, error, exit_code, parseVars, passVars, output, sent,
                 status_ok, pipe, messages, log, writes, prev>>

\* Message::parse_stream(stdout).collect(): take the next message from the pipe, or
\* see the end of the stream once the pipe is empty and closed.
ParentRead ==
  /\ pc = "drain"
  /\ IF pipe # <<>>
       THEN /\ messages' = Append(messages, Head(pipe))
            /\ pipe' = Tail(pipe)
            /\ pc' = pc
       ELSE /\ child = "exited"
            /\ pc' = CargoStepAfter("drain")
            /\ UNCHANGED <<messages, pipe>>
  /\ UNCHANGED <<inputVars, scaffoldVars, config, error, exit_code, parseVars, passVars, child, output, sent,
                 status_ok, log, writes, prev>>

\* let status = child.wait()?: returns once the compiler has exited
ParentWait ==
  /\ pc = "wait"
  /\ child = "exited"
  /\ pc' = CargoStepAfter("wait")
  /\ UNCHANGED <<inputVars, scaffoldVars, config, error, exit_code, parseVars, passVars, childVars, log,
                 writes, prev>>

\* if !status.success() { bail } .. Ok(target_artifact), and internal_build_rmk's
\* cargo_build(binary, verbosity)?.expect(..)
CargoSelect ==
  /\ pc = "select"
  /\ LET r == CargoResult(side, messages, status_ok)
     IN  IF r.ok
           THEN /\ artifact' = r.val
                /\ pc' = "convert"
                /\ error' = error
           ELSE /\ error' = Some(r.err)
                /\ pc' = AfterFailure(todo)
                /\ artifact' = artifact
  /\ UNCHANGED <<inputVars, scaffoldVars, config, exit_code, parseVars, chip_info, todo, side,
                 firmware_file, childVars, log, writes, prev>>

\* let Some(objcopy_format) = objcopy_format else { return Ok(()) };
Convert ==
  /\ pc = "convert"
  /\ pc' = IF IsNone(ObjcopyFormat(config.val)) THEN AfterPass(todo) ELSE "objcopy"
  /\ UNCHANGED <<inputVars, scaffoldVars, config, error, exit_code, parseVars, passVars, childVars, log,
                 writes, prev>>

\* let firmware_file = cargo_objcopy(file, &name, verbosity, objcopy_format)?;
\* if !(firmware_format == Uf2) { return Ok(()) }
Objcopy ==
  /\ pc = "objcopy"
  /\ LET a == ObjcopyArgs(ObjcopyFormat(config.val).val)
         path == OutputPath(OutName(config.val, side), a.ending)
         call == [tool |-> "llvm-objcopy", side |-> side, input |-> FileOf(artifact.val),
                  selector |-> a.selector, output |-> path]
     IN  IF ~a.ok
           THEN /\ error' = Some(a.err)
                /\ pc' = AfterFailure(todo)
                /\ UNCHANGED <<firmware_file, log, writes>>
           ELSE \E outcome \in {"SpawnFailed", "ConversionFailed", "converted"} :
                  CASE outcome = "SpawnFailed" ->
                         /\ error' = Some(Err("SpawnFailed", <<>>))
                         /\ pc' = AfterFailure(todo)
                         /\ UNCHANGED <<firmware_file, log, writes>>
                    [] outcome = "ConversionFailed" ->
                         /\ error' = Some(Err("ConversionFailed", <<a.selector>>))
                         /\ pc' = AfterFailure(todo)
                         /\ log' = Append(log, call)
                         /\ \E partial \in BOOLEAN :
                              writes' = IF partial
                                          THEN Append(writes, [path |-> path, side |-> side])
                                          ELSE writes
                         /\ UNCHANGED firmware_file
                    [] outcome = "converted" ->
                         /\ firmware_file' = Some(path)
                         /\ log' = Append(log, call)
                         /\ writes' = Append(writes, [path |-> path, side |-> side])
                         /\ pc' = IF config.val.firmware_format = "Uf2" THEN "uf2"
                                  ELSE AfterPass(todo)
                         /\ error' = error
  /\ UNCHANGED <<inputVars, scaffoldVars, config, exit_code, parseVars, chip_info, todo, side, artifact,
                 childVars, prev>>

\* hex_to_uf2::hex_to_uf2_file(firmware_file, uf2_output, &Some(chip_info.clone()))?
Uf2 ==
  /\ pc = "uf2"
  /\ LET out == Uf2Output(OutName(config.val, side))
         call == [tool |-> "hex_to_uf2", side |-> side, input |-> firmware_file.val,
                  output |-> out, chip_info |-> Uf2ChipArg(chip_info.val)]
     IN  /\ log' = Append(log, call)
         /\ \E packaged \in BOOLEAN :
              IF packaged
                THEN /\ writes' = Append(writes, [path |-> out, side |-> side])
                     /\ pc' = AfterPass(todo)
                     /\ error' = error
                ELSE /\ error' = Some(Err("Uf2Failed", <<>>))
                     /\ pc' = AfterFailure(todo)
                     /\ \E partial \in BOOLEAN :
                          writes' = IF partial
                                      THEN Append(writes, [path |-> out, side |-> side])
                                      ELSE writes
  /\ UNCHANGED <<inputVars, scaffoldVars, config, exit_code, parseVars, passVars, childVars, prev>>

---------------------------------------------------------------------------
(* init_project, and the template and post_process steps it shares with     *)
(* create_project                                                           *)

PICO_W == <<"p","i","c","o","_","w">>
RP2040_NAME == <<"r","p","2","0","4","0">>

\* rmkit: the chips the chip prompt offers, from get_all_chip_info()
ChipChoices(split) ==
  LET all == get_all_chip_info
      kept == IF split THEN SelectSeq(all, LAMBDA i : i.split_support) ELSE all
  IN  [i \in 1..Len(kept) |-> kept[i].chip]

\* rmkit: let remote_folder = if split { format!("{}_{}", chip, "split") } else { chip.to_string() }
InitRemoteFolder(chip_name, split) ==
  IF split THEN chip_name \o <<"_">> \o SPLIT ELSE chip_name

\* root crate: if let Some(c) = board_chip_map.get(chip_or_board) { chip_or_board = c }
InitChipOrBoard(t) == IF BoardMapHas(t) THEN BoardMapGet(t) ELSE t

\* root crate: uf2_key of init_project
InitUf2Key(chip_name) ==
  IF starts_with(chip_name, STM32) THEN SliceTo(chip_name, 7)
  ELSE IF chip_name = PICO_W THEN RP2040_NAME
  ELSE chip_name

\* root crate: the default features to disable, as init_project lists them
DisabledDefaultFeature(row2col) == IF row2col THEN {"col2row"} ELSE {}

\* root crate: the default features of the rmk package in the cargo metadata
RmkDefaultFeatures == {"col2row", "defmt", "storage"}

\* the features the rmk dependency of a manifest has enabled
EnabledFeatures(dep) ==
  dep.features \cup (IF dep.default_features THEN RmkDefaultFeatures ELSE {})

\* init_project up to the ProjectInfo: the prompts for what was not given on the
\* command line, fs::create_dir_all(&target_dir)?, the template folder.
InitProject ==
  /\ pc = "init"
  /\ \E answered \in BOOLEAN, created \in BOOLEAN, split_answer \in BOOLEAN :
       LET a == init_args.val
           prompts == IsNone(a.project_name) \/ IsNone(a.split) \/ IsNone(a.chip)
           split == IF IsSome(a.split) THEN a.split.val ELSE split_answer
           row2col == unwrap_or(a.row2col, FALSE)
           name == replace(unwrap_or(a.project_name, <<"m","y"," ","k","b">>), " ", "_")
       IN  /\ offered' = IF crate = "rmkit" /\ IsNone(a.chip) /\ answered
                           THEN Some(ChipChoices(split)) ELSE None
           /\ IF prompts /\ ~answered
                THEN /\ error' = Some(Err("PromptFailed", <<>>))
                     /\ pc' = "main_return"
                     /\ UNCHANGED <<dirs, resolved, project, exit_code>>
              ELSE \E choice \in (IF crate = "rmkit" /\ IsNone(a.chip)
                                    THEN {ChipChoices(split)[i] : i \in 1..Len(ChipChoices(split))}
                                    ELSE {a.chip.val}) :
                     LET chip_name == IF crate = "rmkit" THEN ChipToString(choice)
                                      ELSE InitChipOrBoard(choice)
                     IN  IF ~created
                           THEN /\ error' = Some(Err("ProjectDirectoryError", <<>>))
                                /\ pc' = "main_return"
                                /\ UNCHANGED <<dirs, resolved, project, exit_code>>
                         ELSE IF crate = "root" /\ Uf2KeyPanics(chip_name)
                           THEN /\ error' = Some(Err("Panic", <<>>))
                                /\ exit_code' = 101
                                /\ pc' = "exited"
                                /\ dirs' = dirs \cup {name}
                                /\ UNCHANGED <<resolved, project>>
                         ELSE /\ dirs' = dirs \cup {name}
                              /\ resolved' = Some(IF crate = "rmkit" THEN choice ELSE chip_name)
                              /\ project' =
                                   Some(IF crate = "rmkit"
                                          THEN [project_name |-> name,
                                                target_dir |-> name,
                                                remote_folder |-> InitRemoteFolder(chip_name, split),
                                                chip |-> choice,
                                                row2col |-> row2col]
                                          ELSE [project_name |-> name,
                                                target_dir |-> name,
                                                remote_folder |-> InitRemoteFolder(chip_name, split),
                                                chip |-> chip_name,
                                                uf2_key |-> InitUf2Key(chip_name),
                                                row2col |-> row2col])
                              /\ pc' = "template"
                              /\ UNCHANGED <<error, exit_code>>
  /\ UNCHANGED <<inputVars, config, steps, buildVars, manifest, downloadVars>>

\* The folders of the template repository's archive (the second segment of its
\* entries' paths) that the invocations meet.
STM32F4 == <<"s","t","m","3","2","f","4">>
TemplateRepo ==
  {ChipToString("NRF52840"), ChipToString("NRF52840") \o <<"_">> \o SPLIT, STM32F4, STM32}

\* What the response body turns out to be: no zip archive at all (None), or an
\* archive with these folders whose entries all have an enclosed name (valid) or not.
Archives ==
  {None} \cup {Some([folders |-> f, valid |-> v]) :
                 f \in {TemplateRepo, TemplateRepo \ {STM32F4}, {ChipToString("RP2040")}},
                 v \in BOOLEAN}

\* TempFileCleanup that is never armed: the file stays as it was.
DropGuard_Leaks(exists) == exists

\* impl Drop for TempFileCleanup: if self.path.exists() { fs::remove_file(self.path) }
DropGuard(exists) == IF exists THEN FALSE ELSE exists

\* The folder the three searches of download_with_progress extract: `folder` itself;
\* else, for a folder starting with "stm32", its first 7 characters when it is longer
\* than 7, else "stm32"; None when no search finds an entry.
TemplateFolder(folders, folder) ==
  IF folder \in folders THEN Some(folder)
  ELSE IF starts_with(folder, STM32)
    THEN IF Len(folder) > 7 /\ SubSeq(folder, 1, 7) \in folders
           THEN Some(SubSeq(folder, 1, 7))
         ELSE IF STM32 \in folders THEN Some(STM32)
         ELSE None
  ELSE None

\* download_with_progress up to the cleanup guard: the project directory is emptied
\* and created again, the archive is requested, temp.zip is created in the directory.
DownloadStart ==
  /\ pc = "template"
  /\ \E outcome \in {"IoError", "DownloadFailed", "created"} :
       IF outcome = "created"
         THEN /\ temp_zip' = TRUE
              /\ pc' = "stream"
              /\ error' = error
         ELSE /\ error' = Some(Err(outcome, <<>>))
              /\ pc' = "main_return"
              /\ temp_zip' = temp_zip
  /\ UNCHANGED <<inputVars, config, exit_code, parseVars, buildVars, offered, manifest,
                 archive, extracted>>

\* while let Some(chunk) = stream.next().await { let chunk = chunk?; write_all(&chunk)? }
DownloadStream ==
  /\ pc = "stream"
  /\ \E complete \in BOOLEAN :
       IF complete
         THEN /\ \E a \in Archives : archive' = a
              /\ pc' = "extract"
              /\ UNCHANGED <<error, temp_zip>>
         ELSE /\ error' = Some(Err("DownloadInterrupted", <<>>))
              /\ pc' = "main_return"
              /\ temp_zip' = DropGuard(temp_zip)
              /\ archive' = archive
  /\ UNCHANGED <<inputVars, config, exit_code, parseVars, buildVars, offered, manifest,
                 extracted>>

\* ZipArchive::new(File::open(&temp_file_path)?)?, the searches and the extraction,
\* and the return of download_with_progress, which drops the cleanup guard
DownloadExtract ==
  /\ pc = "extract"
  /\ temp_zip' = DropGuard(temp_zip)
  /\ LET failed(kind, args) == /\ error' = Some(Err(kind, args))
                               /\ pc' = "main_return"
                               /\ UNCHANGED <<manifest, extracted>>
     IN  IF IsNone(archive) THEN failed("InvalidArchive", <<>>)
         ELSE IF ~archive.val.valid THEN failed("InvalidFilePath", <<>>)
         ELSE LET from == TemplateFolder(archive.val.folders, project.val.remote_folder)
              IN  IF IsNone(from)
                    THEN failed("TemplateNotFound", <<project.val.remote_folder>>)
                  ELSE \E written \in BOOLEAN :
                         IF ~written THEN failed("IoError", <<>>)
                         ELSE /\ extracted' = from
                              /\ manifest' = template
                              /\ pc' = IF cmd = "create" THEN "copy" ELSE "post_process"
                              /\ error' = error
  /\ UNCHANGED <<inputVars, config, exit_code, parseVars, buildVars, offered, archive>>

\* create_project: fs::copy(keyboard.toml)?; fs::copy(vial.json)?
CopyFiles ==
  /\ pc = "copy"
  /\ \E copied \in BOOLEAN :
       IF copied
         THEN /\ pc' = "post_process"
              /\ error' = error
         ELSE /\ error' = Some(Err("CopyFailed", <<>>))
              /\ pc' = "main_return"
  /\ UNCHANGED <<inputVars, scaffoldVars, config, exit_code, parseVars, buildVars>>

\* post_process(project_info)?: the replacements in the template's files, then the
\* rewrite of the rmk dependency.  rmkit: if row2col, default-features = false.  root
\* crate: if any default feature is to be disabled, default-features = false and the
\* remaining default features are added to the dependency's features.
PostProcess ==
  /\ pc = "post_process"
  /\ pc' = "main_return"
  /\ LET row2col == project.val.row2col
         disabled == DisabledDefaultFeature(row2col)
     IN  \E replaced \in BOOLEAN :
           IF ~replaced
             THEN /\ error' = Some(Err("ReplaceFailed", <<>>))
                  /\ manifest' = manifest
           ELSE IF (crate = "rmkit" /\ ~row2col) \/ (crate = "root" /\ disabled = {})
             THEN UNCHANGED <<error, manifest>>
           ELSE IF IsNone(manifest)
             THEN /\ error' = Some(Err("NoRmkDependency", <<>>))
                  /\ manifest' = manifest
           ELSE /\ manifest' =
                     Some(IF crate = "rmkit"
                            THEN [manifest.val EXCEPT !.default_features = FALSE]
                            ELSE [default_features |-> FALSE,
                                  features |-> manifest.val.features
                                                 \cup (RmkDefaultFeatures \ disabled)])
                /\ error' = error
  /\ UNCHANGED <<inputVars, config, exit_code, parseVars, buildVars, offered, downloadVars>>

---------------------------------------------------------------------------
(* The invocations explored: the keyboard.toml documents and arguments *)

DocNames == {<<"k","b">>, <<"m","y"," ","k","b">>}

DocBoards == {None} \cup {Some(BoardToString(b)) : b \in Board}

DocChips ==
  {None, Some(ChipToString("NRF52840")), Some(ChipToString("RP2040")),
   Some(ChipToString("STM32F411xE")), Some(STM32), Some(<<"R","P","2","0","4","0">>)}

MatrixSection == [row2col : BOOLEAN]
SplitSection == {[central |-> [matrix |-> m]] : m \in MatrixSection}
OptionOf(S) == {None} \cup {Some(x) : x \in S}

\* [light]: which of the three indicator pins the section sets
LightSection == [capslock : BOOLEAN, scrolllock : BOOLEAN, numlock : BOOLEAN]

Documents(names, boards, chips, formats, lights) ==
  [name : names, board : boards, chip : chips, matrix : OptionOf(MatrixSection),
   split : OptionOf(SplitSection), light : lights, firmware_format : formats,
   readable : BOOLEAN]

NoBuild ==
  /\ chip_info = None
  /\ todo = <<>>
  /\ side = None
  /\ artifact = None
  /\ firmware_file = None
  /\ log = <<>>
  /\ writes = <<>>
  /\ child = "none"
  /\ output = <<>>
  /\ sent = 0
  /\ status_ok = TRUE
  /\ pipe = <<>>
  /\ messages = <<>>
  /\ prev = None

NoScaffold ==
  /\ init_args = None
  /\ template = None
  /\ offered = None
  /\ manifest = None
  /\ temp_zip = FALSE
  /\ archive = None
  /\ extracted = None

NoParse ==
  /\ target_dir = None
  /\ config = None
  /\ dirs = {}
  /\ steps = <<>>
  /\ resolved = None
  /\ project = None
  /\ error = None
  /\ exit_code = -1

\* get-chip and get-project-name, in both crates
Init ==
  /\ crate \in {"rmkit", "root"}
  /\ cmd \in {"get_chip", "get_project_name"}
  /\ doc \in Documents(DocNames, DocBoards, DocChips, {"Uf2"}, {None})
  /\ pc = "parse_read"
  /\ toolchain = "clean"
  /\ cap = 1
  /\ NoParse
  /\ NoBuild
  /\ NoScaffold

Next ==
  \/ ParseRead
  \/ ParseCreateDir
  \/ ParseChipStep
  \/ ParseMatrixStep
  \/ MainReturn

Spec == Init /\ [][Next]_vars

\* rmkit build
BuildNames == {<<"m","y"," ","k","b">>}
BuildBoards == {None, Some(BoardToString("NiceNano"))}
BuildChips == {None, Some(ChipToString("NRF52840")), Some(ChipToString("RP2040"))}
BuildDocs ==
  {d \in Documents(BuildNames, BuildBoards, BuildChips, FirmwareFormat, {None}) :
     /\ IsSome(d.matrix) => ~d.matrix.val.row2col
     /\ IsSome(d.split) => ~d.split.val.central.matrix.row2col}

InitBuild ==
  /\ crate = "rmkit"
  /\ cmd = "build"
  /\ doc \in BuildDocs
  /\ pc = "build_read"
  /\ toolchain = "any"
  /\ cap = 1
  /\ NoParse
  /\ NoBuild
  /\ NoScaffold

NextBuild ==
  \/ BuildRead
  \/ CargoSpawn
  \/ ChildWrite
  \/ ChildExit
  \/ ParentRead
  \/ ParentWait
  \/ CargoSelect
  \/ Convert
  \/ Objcopy
  \/ Uf2
  \/ MainReturn

BuildSpec == InitBuild /\ [][NextBuild]_vars

\* rmkit build with a compiler that prints many messages into a small pipe; the
\* operating system schedules both processes, and the compiler terminates.
PipeDocs == {d \in BuildDocs : d.readable /\ d.firmware_format = "Uf2" /\ IsNone(d.board)}

InitPipe ==
  /\ crate = "rmkit"
  /\ cmd = "build"
  /\ doc \in PipeDocs
  /\ pc = "build_read"
  /\ toolchain = "volume"
  /\ cap \in 1..MaxCap
  /\ NoParse
  /\ NoBuild
  /\ NoScaffold

PipeSpec ==
  /\ InitPipe
  /\ [][NextBuild]_vars
  /\ WF_vars(ChildWrite)
  /\ WF_vars(ChildExit)
  /\ WF_vars(ParentRead)
  /\ WF_vars(ParentWait)

\* two rmkit builds, one after the other, each of a readable description with
\* exactly one of the matrix and split sections and with a clean compiler run
TwoBuildDocs == {d \in BuildDocs : d.readable /\ (IsSome(d.matrix) # IsSome(d.split))}

Restart ==
  /\ pc = "exited"
  /\ IsNone(prev)
  /\ IsNone(error)
  /\ prev' = Some([chip |-> chip_info.val.chip, stages |-> ToolsOf(StagesOf(log, side))])
  /\ doc' \in TwoBuildDocs
  /\ pc' = "build_read"
  /\ config' = None
  /\ exit_code' = -1
  /\ chip_info' = None
  /\ todo' = <<>>
  /\ side' = None
  /\ artifact' = None
  /\ firmware_file' = None
  /\ log' = <<>>
  /\ writes' = <<>>
  /\ child' = "none"
  /\ output' = <<>>
  /\ sent' = 0
  /\ status_ok' = TRUE
  /\ pipe' = <<>>
  /\ messages' = <<>>
  /\ UNCHANGED <<crate, cmd, init_args, template, target_dir, toolchain, cap, error, parseVars,
                 scaffoldVars>>

InitTwoBuilds ==
  /\ crate = "rmkit"
  /\ cmd = "build"
  /\ doc \in TwoBuildDocs
  /\ pc = "build_read"
  /\ toolchain = "clean"
  /\ cap = 1
  /\ NoParse
  /\ NoBuild
  /\ NoScaffold

NextTwoBuilds == NextBuild \/ Restart

TwoBuildSpec == InitTwoBuilds /\ [][NextTwoBuilds]_vars

\* create and init, in both crates
ScaffoldNames == {<<"m","y"," ","k","b">>}
ScaffoldBoards == {None, Some(BoardToString("NiceNano"))}
ScaffoldChips == {None, Some(ChipToString("NRF52840")), Some(ChipToString("STM32F411xE"))}
ScaffoldLights ==
  {None} \cup {Some(l) : l \in {l \in LightSection : ~(l.scrolllock /\ l.numlock)}}
ScaffoldDocs ==
  {d \in Documents(ScaffoldNames, ScaffoldBoards, ScaffoldChips, {"Uf2"}, ScaffoldLights) :
     d.readable /\ (IsNone(d.board) \/ IsNone(d.chip))}

Templates ==
  {None, Some([default_features |-> TRUE, features |-> {}]),
   Some([default_features |-> TRUE, features |-> {"async_matrix"}])}

\* init's chip argument: a Chip in the rmkit crate (or none: the prompt), the name of
\* a chip or of a board in the root crate
InitChips(c) ==
  IF c = "rmkit" THEN {None, Some("NRF52840"), Some("STM32F411xE")}
  ELSE {Some(ChipToString("NRF52840")), Some(BoardToString("NiceNano")), Some(PICO_W),
        Some(ChipToString("STM32F411xE"))}

InitArgs(c) ==
  [project_name : OptionOf(ScaffoldNames), chip : InitChips(c), split : OptionOf(BOOLEAN),
   row2col : OptionOf(BOOLEAN), local_path : {None}]

InitScaffold ==
  /\ crate \in {"rmkit", "root"}
  /\ cmd \in {"create", "init"}
  /\ template \in Templates
  /\ IF cmd = "create"
       THEN /\ doc \in ScaffoldDocs
            /\ init_args = None
            /\ pc = "parse_read"
       ELSE /\ doc \in {d \in ScaffoldDocs : IsNone(d.board) /\ IsNone(d.chip) /\ IsNone(d.matrix)
                                            /\ IsNone(d.split) /\ IsNone(d.light)}
            /\ init_args \in {Some(a) : a \in InitArgs(crate)}
            /\ pc = "init"
  /\ toolchain = "clean"
  /\ cap = 1
  /\ offered = None
  /\ manifest = None
  /\ temp_zip = FALSE
  /\ archive = None
  /\ extracted = None
  /\ NoParse
  /\ NoBuild

NextScaffold ==
  \/ ParseRead
  \/ ParseCreateDir
  \/ ParseChipStep
  \/ ParseMatrixStep
  \/ InitProject
  \/ DownloadStart
  \/ DownloadStream
  \/ DownloadExtract
  \/ CopyFiles
  \/ PostProcess
  \/ MainReturn

ScaffoldSpec == InitScaffold /\ [][NextScaffold]_vars

---------------------------------------------------------------------------
(* Properties of configuration resolution (parse_keyboard_toml) *)

Did(step) == \E i \in 1..Len(steps) : steps[i] = step

HasError(kind) == IsSome(error) /\ error.val.kind = kind

\* The chip the configured board implies and the chip the description names, as the
\* running crate represents chips (an enum value in rmkit, a lowercase name in root).
ImpliedChip ==
  IF crate = "rmkit" THEN get_chip(config.val.board.val)
  ELSE BoardMapGet(to_lowercase(config.val.board.val))

NamedChip ==
  IF crate = "rmkit" THEN config.val.chip.val ELSE to_lowercase(config.val.chip.val)

BothBoardAndChip == IsSome(config) /\ IsSome(config.val.board) /\ IsSome(config.val.chip)

ChipSpecOk ==
  /\ IsSome(config)
  /\ IsSome(config.val.board) \/ IsSome(config.val.chip)
  /\ BothBoardAndChip => NamedChip = ImpliedChip

NeitherSection == IsSome(config) /\ IsNone(config.val.matrix) /\ IsNone(config.val.split)
BothSections == IsSome(config) /\ IsSome(config.val.matrix) /\ IsSome(config.val.split)
MatrixSpecOk == IsSome(config) /\ ~NeitherSection /\ ~BothSections

InSeq(x, s) == \E i \in 1..Len(s) : s[i] = x

C2_MatrixXorSplit ==
  /\ (Did("matrix") /\ NeitherSection) =>
       (HasError("MissingMatrixSpecification") /\ IsNone(project))
  /\ (Did("matrix") /\ BothSections) =>
       (HasError("ConflictingMatrixSpecification") /\ IsNone(project))
  /\ IsSome(project) => MatrixSpecOk

C2_Witness ==
  /\ Did("matrix")
  /\ BothSections
  /\ HasError("ConflictingMatrixSpecification")
  /\ pc = "exited"

\* C3: the failure conditions are checked in the order missing chip, conflicting
\* chip, missing matrix, conflicting matrix, directory creation: the directory is
\* not touched before the four configuration checks have passed, and the error
\* reported is the earliest failing one in that order.
C3_CheckOrder ==
  /\ Did("mkdir") => (ChipSpecOk /\ MatrixSpecOk)
  /\ (pc = "exited" /\ IsSome(config) /\ ~ChipSpecOk) =>
       (HasError("MissingChipSpecification") \/ HasError("ConflictingChipSpecification"))
  /\ (pc = "exited" /\ IsSome(config) /\ ChipSpecOk /\ ~MatrixSpecOk) =>
       (HasError("MissingMatrixSpecification") \/ HasError("ConflictingMatrixSpecification"))

---------------------------------------------------------------------------
(* Properties of the build pipeline (build_rmk, cargo_build) *)

\* cargo_build has returned to the running internal_build_rmk call
CargoReturned == child = "exited" /\ pc \notin {"drain", "wait", "select"}

\* The selection rule as specified: with a target name, the artifact of that name
\* that has a direct executable; without one, the artifact of kind executable binary.
RuleMatches(bin, m) ==
  /\ m.type = "CompilerArtifact"
  /\ IF IsSome(bin) THEN m.name = bin.val /\ IsSome(m.executable) ELSE m.kind_bin

RuleMatchCount == Cardinality({i \in 1..Len(messages) : RuleMatches(side, messages[i])})

CodeMatchCount ==
  Cardinality({i \in 1..Len(messages) :
                 messages[i].type = "CompilerArtifact" /\ Matches(side, messages[i])})

NoStreamError == \A i \in 1..Len(messages) : messages[i].type # "Err"

\* The chip the description selects, by board or by chip
EffectiveChip ==
  IF IsSome(config.val.chip) THEN config.val.chip.val ELSE get_chip(config.val.board.val)

Started(tool) == \E i \in 1..Len(log) : log[i].tool = tool

ConfigErrors ==
  {"ReadFailed", "ParseFailed", "MissingChipSpecification", "ConflictingChipSpecification",
   "MissingMatrixSpecification", "ConflictingMatrixSpecification"}

\* C4: a description whose matrix and split sections are both present or both
\* absent never gets the compiler started, and the build ends with a configuration
\* error.
C4_BuildValidatesMatrix ==
  (NeitherSection \/ BothSections) =>
    /\ ~Started("cargo")
    /\ pc = "exited" => (IsSome(error) /\ error.val.kind \in ConfigErrors)

\* C5: every artifact message the selection counts as a match satisfies the rule:
\* for a named target it carries that name and a direct executable, for no target
\* name it is of kind executable binary.
C5_SelectionRule ==
  /\ pc = "select" =>
       \A i \in 1..Len(messages) :
         (messages[i].type = "CompilerArtifact" /\ Matches(side, messages[i]))
           => RuleMatches(side, messages[i])
  /\ (CargoReturned /\ IsSome(artifact)) => RuleMatches(side, artifact.val)

\* C6: cargo_build returns an artifact only when exactly one message matched the
\* selection rule; after a clean compiler run with no message matching it fails
\* with NoArtifactProduced, with two or more matching with AmbiguousArtifact.
C6_ExactlyOneMatch ==
  CargoReturned =>
    /\ IsSome(artifact) => RuleMatchCount = 1
    /\ (status_ok /\ NoStreamError /\ RuleMatchCount = 0) =>
         (IsNone(artifact) /\ HasError("NoArtifactProduced"))
    /\ (status_ok /\ NoStreamError /\ RuleMatchCount >= 2) =>
         (IsNone(artifact) /\ HasError("AmbiguousArtifact"))

\* C7: the exit status is looked at only once every message the compiler printed
\* has been collected, and a compiler that exited non-zero makes cargo_build fail
\* with no artifact, whatever the messages hold.
C7_StatusAfterDrain ==
  /\ pc = "select" => (child = "exited" /\ pipe = <<>> /\ messages = output)
  /\ (CargoReturned /\ ~status_ok) => (IsNone(artifact) /\ HasError("BuildFailed"))

C7_Witness ==
  /\ CargoReturned
  /\ ~status_ok
  /\ CodeMatchCount = 1
  /\ RuleMatchCount = 1
  /\ NoStreamError
  /\ HasError("BuildFailed")
  /\ IsNone(artifact)

\* the compiler cannot write because the pipe is full
ChildBlocked == child = "running" /\ sent < Len(output) /\ Len(pipe) = cap

\* C8: the compiler is never blocked on a full pipe while the parent is blocked in
\* child.wait(); the parent waits only after it has read the stream to its end;
\* and a build step that is collecting messages reaches the exit-status check.
C8_NoPipeDeadlock ==
  /\ [](~(ChildBlocked /\ pc = "wait"))
  /\ [](pc = "wait" => (pipe = <<>> /\ sent = Len(output) /\ messages = output))
  /\ (pc = "drain") ~> (pc = "select")

C8_Witness ==
  /\ pc = "select"
  /\ Len(output) > cap
  /\ messages = output

\* C9: two builds with the same effective chip run the same sequence of conversion
\* stages.
C9_StagesFollowChip ==
  (/\ IsSome(prev)
   /\ pc = "exited"
   /\ IsNone(error)
   /\ chip_info.val.chip = prev.val.chip)
    => ToolsOf(StagesOf(log, side)) = prev.val.stages

\* C10: with firmware format Uf2, a bootloader packager call directly follows the
\* format converter call of the same pass, reads the file that call wrote, and is
\* given Some(chip metadata) whose family_id is the registry's for the effective
\* chip; and every pass of a build that succeeded ran exactly these two stages.
C10_Uf2Chain ==
  (IsSome(config) /\ config.val.firmware_format = "Uf2") =>
    /\ \A i \in 1..Len(log) :
         log[i].tool = "hex_to_uf2" =>
           /\ i > 1
           /\ log[i - 1].tool = "llvm-objcopy"
           /\ log[i - 1].side = log[i].side
           /\ log[i].input = log[i - 1].output
           /\ IsSome(log[i].chip_info)
           /\ log[i].chip_info.val = get_info(EffectiveChip)
           /\ log[i].chip_info.val.family_id = FamilyIdOf(EffectiveChip)
    /\ (pc = "exited" /\ IsNone(error)) =>
         \A k \in 1..Len(Passes(config.val)) :
           ToolsOf(StagesOf(log, Passes(config.val)[k])) = <<"llvm-objcopy", "hex_to_uf2">>

C10_Witness ==
  /\ pc = "exited"
  /\ IsNone(error)
  /\ config.val.firmware_format = "Uf2"
  /\ IsNone(config.val.split)
  /\ Len(log) = 3
  /\ log[3].tool = "hex_to_uf2"
  /\ log[3].chip_info.val.family_id = "ada52840"

---------------------------------------------------------------------------
(* Properties of the conversion chain (internal_build_rmk, cargo_objcopy) *)

\* the errors a build can end with before any conversion stage is reached
BuildStepErrors ==
  {"MetadataFailed", "SpawnFailed", "BuildFailed", "StreamError", "NoArtifactProduced",
   "AmbiguousArtifact"}

\* C11: with firmware format Elf only the compiler is ever started: no converter,
\* no packager, no output file, and a pass whose cargo_build returned an artifact
\* goes on to the next pass or to a successful return without an error.
C11_ElfNoConversion ==
  (IsSome(config) /\ config.val.firmware_format = "Elf") =>
    /\ \A i \in 1..Len(log) : log[i].tool = "cargo"
    /\ writes = <<>>
    /\ firmware_file = None
    /\ pc \notin {"objcopy", "uf2"}
    /\ IsSome(error) => error.val.kind \in ConfigErrors \cup BuildStepErrors
    /\ (pc = "exited" /\ IsNone(error)) => (IsSome(artifact) /\ exit_code = 0)

C11_Witness ==
  /\ pc = "exited"
  /\ IsNone(error)
  /\ config.val.firmware_format = "Elf"
  /\ IsSome(artifact)
  /\ artifact.val = BinCentral
  /\ ToolsOf(log) = <<"cargo">>
  /\ writes = <<>>

\* C12: when llvm-objcopy exits non-zero the pass fails without the packager being
\* started for that target, and the error carries the output path llvm-objcopy was
\* given.
C12_ConverterFailureNamesPath ==
  HasError("ConversionFailed") =>
    /\ log # <<>>
    /\ log[Len(log)].tool = "llvm-objcopy"
    /\ log[Len(log)].side = side
    /\ ~\E i \in 1..Len(log) : log[i].tool = "hex_to_uf2" /\ log[i].side = side
    /\ InSeq(log[Len(log)].output, error.val.args)

---------------------------------------------------------------------------
(* Properties of the passes of a build (build_rmk) *)

\* the sides the compiler was started for, in order
CargoSides == LET c == SelectSeq(log, LAMBDA e : e.tool = "cargo") IN [i \in 1..Len(c) |-> c[i].side]

\* a path without its extension: everything before the last "."
Stem(path) ==
  LET dots == {i \in 1..Len(path) : path[i] = "."}
  IN  IF dots = {} THEN path
      ELSE SubSeq(path, 1, (CHOOSE i \in dots : \A j \in dots : j <= i) - 1)

SplitDescription == IsSome(config) /\ IsSome(config.val.split) /\ IsNone(config.val.matrix)
UnibodyDescription == IsSome(config) /\ IsSome(config.val.matrix) /\ IsNone(config.val.split)

BuildSucceeded == pc = "exited" /\ IsNone(error) /\ cmd = "build"

\* C13: a successful build of a split description started the compiler exactly
\* twice, for "central" and for "peripheral", and every file it wrote is named
\* {name}_central or {name}_peripheral after its pass; a successful build of a
\* unibody description started it once with no target name and wrote files named
\* {name}.
C13_PassesAndNames ==
  /\ (BuildSucceeded /\ SplitDescription) =>
       /\ CargoSides = <<Some(<<"c","e","n","t","r","a","l">>),
                         Some(<<"p","e","r","i","p","h","e","r","a","l">>)>>
       /\ \A i \in 1..Len(writes) :
            /\ IsSome(writes[i].side)
            /\ Stem(writes[i].path) = config.val.name \o <<"_">> \o writes[i].side.val
  /\ (BuildSucceeded /\ UnibodyDescription) =>
       /\ CargoSides = <<None>>
       /\ \A i \in 1..Len(writes) : Stem(writes[i].path) = config.val.name

C13_Witness ==
  /\ BuildSucceeded
  /\ SplitDescription
  /\ config.val.firmware_format = "Uf2"
  /\ Len(writes) = 4
  /\ writes[4].path = config.val.name \o <<"_","p","e","r","i","p","h","e","r","a","l",".","u","f","2">>

\* the peripheral pass of a split build failed after the central pass had returned
PeripheralFailed ==
  /\ IsSome(error)
  /\ pc \in {"main_return", "exited"}
  /\ CargoSides = <<Some(CENTRAL), Some(PERIPHERAL)>>

\* the files a pass wrote, as the tools it ran were told to write them
OutputsOf(s) == LET st == StagesOf(log, s) IN {st[i].output : i \in 1..Len(st)}

\* C14: when the peripheral pass fails after the central pass completed, every
\* file the central pass wrote is still there and was not written again by the
\* peripheral pass; and no step of a build removes a file written earlier.
C14_CentralSurvives ==
  /\ [](PeripheralFailed =>
          /\ \A f \in OutputsOf(Some(CENTRAL)) :
               \E i \in 1..Len(writes) : writes[i] = [path |-> f, side |-> Some(CENTRAL)]
          /\ \A i, j \in 1..Len(writes) :
               (writes[i].side = Some(CENTRAL) /\ writes[j].side = Some(PERIPHERAL))
                 => writes[i].path # writes[j].path)
  /\ [][Len(writes') >= Len(writes) /\ SubSeq(writes', 1, Len(writes)) = writes]_vars

C14_Witness ==
  /\ PeripheralFailed
  /\ pc = "exited"
  /\ HasError("Uf2Failed")
  /\ Len(writes) = 4
  /\ writes[2].side = Some(CENTRAL)
  /\ writes[4].side = Some(PERIPHERAL)

\* the conversion tools a pass runs for a firmware format
ToolsFor(format) ==
  CASE format = "Elf" -> <<>>
    [] format \in {"Bin", "Hex"} -> <<"llvm-objcopy">>
    [] format = "Uf2" -> <<"llvm-objcopy", "hex_to_uf2">>

\* C15: in a split build the compiler is first started for the central side, and
\* when it is started for the peripheral side every earlier step belongs to the
\* central pass, which has run all its conversion stages and written their files;
\* every later step belongs to the peripheral pass.
C15_CentralThenPeripheral ==
  (IsSome(config) /\ IsSome(config.val.split)) =>
    /\ log # <<>> => log[1] = [tool |-> "cargo", side |-> Some(CENTRAL)]
    /\ \A i \in 1..Len(log) :
         (log[i].tool = "cargo" /\ log[i].side = Some(PERIPHERAL)) =>
           /\ \A j \in 1..(i - 1) : log[j].side = Some(CENTRAL)
           /\ \A j \in i..Len(log) : log[j].side = Some(PERIPHERAL)
           /\ ToolsOf(StagesOf(SubSeq(log, 1, i - 1), Some(CENTRAL)))
                = ToolsFor(config.val.firmware_format)
           /\ \A f \in OutputsOf(Some(CENTRAL)) :
                \E k \in 1..Len(writes) : writes[k] = [path |-> f, side |-> Some(CENTRAL)]

C15_Witness ==
  /\ IsSome(config)
  /\ IsSome(config.val.split)
  /\ config.val.firmware_format = "Uf2"
  /\ pc = "drain"
  /\ side = Some(PERIPHERAL)
  /\ ToolsOf(log) = <<"cargo", "llvm-objcopy", "hex_to_uf2", "cargo">>

\* how often a tool was started for a side
StartsOf(tool, s) == Cardinality({i \in 1..Len(log) : log[i].tool = tool /\ log[i].side = s})

\* C16: each external process is started at most once per build target; once a
\* step has failed the build is on its way out (no process is started and the
\* error is kept), and the process exits with a failure status.
C16_NoRetryFailStop ==
  /\ [](/\ \A tool \in {"cargo", "llvm-objcopy", "hex_to_uf2"} :
             \A s \in {None, Some(CENTRAL), Some(PERIPHERAL)} : StartsOf(tool, s) <= 1
        /\ IsSome(error) => pc \in {"main_return", "exited"}
        /\ (pc = "exited" /\ IsSome(error)) => exit_code = 1)
  /\ [][IsSome(error) => (log' = log /\ error' = error /\ child' = child)]_vars

C16_Witness ==
  /\ pc = "exited"
  /\ HasError("BuildFailed")
  /\ exit_code = 1
  /\ IsSome(config)
  /\ IsSome(config.val.split)
  /\ CargoSides = <<Some(CENTRAL)>>
  /\ todo = <<Some(PERIPHERAL)>>

---------------------------------------------------------------------------
(* Properties of the chip registry (chips/src/lib.rs) and of the scaffolding *)

\* C17: for the chip an init invocation of the rmkit crate has settled on (any chip
\* of the registry): get_all_chip_info holds exactly one entry for it, get_info of
\* it is an entry for that chip, and no other chip has its family_id; and the chips
\* the chip prompt offers are pairwise distinct, all chips when split is off.
C17_RegistryTotalInjective ==
  /\ (crate = "rmkit" /\ cmd = "init" /\ pc = "template") =>
       LET c == project.val.chip
           all == get_all_chip_info
       IN  /\ c \in Chip
           /\ Cardinality({i \in 1..Len(all) : all[i].chip = c}) = 1
           /\ get_info(c).chip = c
           /\ \A c2 \in Chip : c2 # c => get_info(c2).family_id # get_info(c).family_id
  /\ IsSome(offered) =>
       /\ Cardinality({offered.val[i] : i \in 1..Len(offered.val)}) = Len(offered.val)
       /\ (IsSome(project) /\ project.val.remote_folder = ChipToString(project.val.chip)) =>
            {offered.val[i] : i \in 1..Len(offered.val)} = Chip

C17_Witness ==
  /\ IsSome(offered)
  /\ Len(offered.val) = Cardinality(Chip)
  /\ IsSome(project)
  /\ project.val.chip = "Rp2350ArmS"
  /\ pc = "template"

\* the identifier of the chip of the ProjectInfo: the Chip's name in the rmkit crate,
\* the chip string in the root crate
ProjectChipId == IF crate = "rmkit" THEN ChipToString(project.val.chip) ELSE project.val.chip

\* C18: the remote_folder of a ProjectInfo is the chip's identifier followed by
\* "_split" for a description with a split section (for init: with the split flag
\* on), and the chip's identifier alone for a unibody one (the flag off).
C18_TemplateKey ==
  IsSome(project) =>
    /\ (cmd = "create" /\ SplitDescription) =>
         project.val.remote_folder = ProjectChipId \o <<"_","s","p","l","i","t">>
    /\ (cmd = "create" /\ UnibodyDescription) => project.val.remote_folder = ProjectChipId
    /\ (cmd = "init" /\ init_args.val.split = Some(TRUE)) =>
         project.val.remote_folder = ProjectChipId \o <<"_","s","p","l","i","t">>
    /\ (cmd = "init" /\ init_args.val.split = Some(FALSE)) =>
         project.val.remote_folder = ProjectChipId
    /\ project.val.remote_folder
         \in {ProjectChipId, ProjectChipId \o <<"_","s","p","l","i","t">>}

C18_Witness ==
  /\ cmd = "create"
  /\ crate = "rmkit"
  /\ SplitDescription
  /\ IsSome(config.val.board)
  /\ IsSome(project)
  /\ project.val.remote_folder
       = <<"n","r","f","5","2","8","4","0","_","s","p","l","i","t">>

---------------------------------------------------------------------------
(* Properties of the (board, chip) match *)

OnlyBoard == IsSome(config) /\ IsSome(config.val.board) /\ IsNone(config.val.chip)
OnlyChip == IsSome(config) /\ IsNone(config.val.board) /\ IsSome(config.val.chip)
NeitherBoardNorChip == IsSome(config) /\ IsNone(config.val.board) /\ IsNone(config.val.chip)

ChipError ==
  IsSome(error) /\ error.val.kind \in {"MissingChipSpecification", "ConflictingChipSpecification",
                                       "UnsupportedBoard", "BoardAndChipBothSpecified"}

\* C19: once the (board, chip) match has run: with neither field the error is the
\* missing-chip error and there is neither a chip nor a ProjectInfo; with only a
\* board the chip is the one the board carries; with only a chip it is that chip;
\* and a ProjectInfo that is returned carries the chip so resolved.
C19_ChipFromBoardOrChip ==
  /\ NeitherBoardNorChip => (IsNone(resolved) /\ IsNone(project))
  /\ (Did("chip") /\ NeitherBoardNorChip) => HasError("MissingChipSpecification")
  /\ (Did("chip") /\ OnlyBoard) => (resolved = Some(ImpliedChip) /\ ~ChipError)
  /\ (Did("chip") /\ OnlyChip) => (resolved = Some(NamedChip) /\ ~ChipError)
  /\ (IsSome(project) /\ OnlyBoard) => project.val.chip = ImpliedChip
  /\ (IsSome(project) /\ OnlyChip) => project.val.chip = NamedChip

C19_Witness ==
  /\ crate = "rmkit"
  /\ OnlyBoard
  /\ config.val.board.val = "Liatris"
  /\ IsSome(project)
  /\ project.val.chip = "RP2040"
  /\ pc = "exited"

---------------------------------------------------------------------------
(* Properties of the feature set of a created project *)

\* the description sets at least one of the three indicator pins
LightPinSet ==
  /\ IsSome(config)
  /\ IsSome(config.val.light)
  /\ \/ config.val.light.val.capslock
     \/ config.val.light.val.scrolllock
     \/ config.val.light.val.numlock

\* create_project has returned Ok(()): the project is resolved and post-processed
Created == cmd = "create" /\ pc = "exited" /\ IsNone(error) /\ IsSome(project)

\* C20: the rmk dependency of a created project has the "controller" feature
\* enabled when the description sets an indicator pin, and not otherwise.
C20_ControllerFeature ==
  (Created /\ IsSome(manifest)) =>
    ("controller" \in EnabledFeatures(manifest.val)) = LightPinSet

---------------------------------------------------------------------------
(* Properties of the project directory and of row2col *)

\* C21: when create_dir_all fails in parse_keyboard_toml the process is gone at
\* once with exit status 1: no ProjectInfo, no chip or matrix check, no template,
\* no post-processing; the failure is never followed by another step.
C21_DirectoryFailureExits ==
  /\ []((cmd # "init" /\ HasError("ProjectDirectoryError")) =>
          /\ pc = "exited"
          /\ exit_code = 1
          /\ IsNone(project)
          /\ IsNone(resolved)
          /\ IsNone(manifest)
          /\ steps = <<"read", "mkdir">>)
  /\ [][(cmd # "init" /\ HasError("ProjectDirectoryError")) => UNCHANGED vars]_vars

C21_Witness ==
  /\ cmd = "create"
  /\ HasError("ProjectDirectoryError")
  /\ pc = "exited"
  /\ exit_code = 1

\* C22: the row2col of a ProjectInfo is the matrix section's row2col when there is
\* a matrix section and the central matrix's row2col when there is only a split
\* section; and the value parse_keyboard_toml computes before the (matrix, split)
\* check is the matrix section's whenever there is one and false with no section.
C22_Row2colSource ==
  /\ (IsSome(project) /\ IsSome(config) /\ IsSome(config.val.matrix)) =>
       project.val.row2col = config.val.matrix.val.row2col
  /\ (IsSome(project) /\ IsSome(config) /\ IsNone(config.val.matrix)) =>
       /\ IsSome(config.val.split)
       /\ project.val.row2col = config.val.split.val.central.matrix.row2col
  /\ (Did("matrix") /\ IsSome(config.val.matrix)) =>
       Row2col(config.val) = config.val.matrix.val.row2col
  /\ (Did("matrix") /\ NeitherSection) => Row2col(config.val) = FALSE

C22_Witness ==
  /\ IsSome(project)
  /\ IsNone(config.val.matrix)
  /\ IsSome(config.val.split)
  /\ config.val.split.val.central.matrix.row2col
  /\ project.val.row2col
  /\ pc = "exited"

---------------------------------------------------------------------------
(* Properties of the board table *)

\* C23: get_chip gives every one of the nine boards a chip: nrf-micro,
\* blue-micro840, puchi-ble, nice-nano, nice-nano-v2 and xiao-ble carry the
\* NRF52840, liatris the RP2040, elite-c and pro-micro the ATMEGA32; a description
\* naming only a board resolves to exactly that chip.
C23_BoardTable ==
  /\ \A b \in Board :
       /\ get_chip(b) \in Chip
       /\ b \in {"NrfMicro", "BlueMicro840", "PuchiBle", "NiceNano", "NiceNanoV2", "XiaoBle"}
            => get_chip(b) = "NRF52840"
       /\ b = "Liatris" => get_chip(b) = "RP2040"
       /\ b \in {"EliteC", "ProMicro"} => get_chip(b) = "ATMEGA32"
  /\ (crate = "rmkit" /\ Did("chip") /\ OnlyBoard) =>
       /\ config.val.board.val \in Board
       /\ config.val.board.val
            \in {"NrfMicro", "BlueMicro840", "PuchiBle", "NiceNano", "NiceNanoV2", "XiaoBle"}
            => resolved = Some("NRF52840")
       /\ config.val.board.val = "Liatris" => resolved = Some("RP2040")
       /\ config.val.board.val \in {"EliteC", "ProMicro"} => resolved = Some("ATMEGA32")

C23_Witness ==
  /\ crate = "rmkit"
  /\ OnlyBoard
  /\ config.val.board.val = "EliteC"
  /\ Did("chip")
  /\ resolved = Some("ATMEGA32")

---------------------------------------------------------------------------
(* Properties of the files a build writes *)

\* the extension of a path: everything after the last "."
Extension(path) ==
  LET dots == {i \in 1..Len(path) : path[i] = "."}
  IN  IF dots = {} THEN <<>>
      ELSE SubSeq(path, (CHOOSE i \in dots : \A j \in dots : j <= i) + 1, Len(path))

IHEX == <<"i","h","e","x">>
BINARY == <<"b","i","n","a","r","y">>

\* C24: llvm-objcopy is started with the selector and the extension of the format
\* asked for: "ihex" and {name}.hex for Hex, "binary" and {name}.bin for Bin; the
\* intermediate file of a Uf2 build is an Intel-hex file named {name}.hex, and the
\* packager reads that file (for a description with exactly one of matrix, split).
C24_SelectorMatchesFormat ==
  (UnibodyDescription \/ SplitDescription) => \A i \in 1..Len(log) :
    /\ (log[i].tool = "llvm-objcopy" /\ config.val.firmware_format \in {"Hex", "Uf2"}) =>
         /\ log[i].selector = IHEX
         /\ Extension(log[i].output) = <<"h","e","x">>
    /\ (log[i].tool = "llvm-objcopy" /\ config.val.firmware_format = "Bin") =>
         /\ log[i].selector = BINARY
         /\ Extension(log[i].output) = <<"b","i","n">>
    /\ log[i].tool = "hex_to_uf2" => Extension(log[i].input) = <<"h","e","x">>

\* C25: within one build no output path is written twice: the converter's and the
\* packager's files of one pass differ, and the central and the peripheral pass
\* never write the same path.
C25_PathsWrittenOnce ==
  /\ \A i, j \in 1..Len(writes) : i # j => writes[i].path # writes[j].path
  /\ \A i, j \in 1..Len(writes) :
       (writes[i].side = Some(CENTRAL) /\ writes[j].side = Some(PERIPHERAL)) =>
         writes[i].path # writes[j].path

C25_Witness ==
  /\ BuildSucceeded
  /\ SplitDescription
  /\ config.val.firmware_format = "Uf2"
  /\ Len(writes) = 4
  /\ writes[2].side = Some(CENTRAL)
  /\ writes[4].side = Some(PERIPHERAL)

---------------------------------------------------------------------------
(* Properties of the template download (download_with_progress) *)

\* download_with_progress is running and has created temp.zip
Downloading == pc \in {"stream", "extract"}

\* the errors download_with_progress returns after it created temp.zip
DownloadErrors == {"DownloadInterrupted", "InvalidArchive", "InvalidFilePath", "TemplateNotFound"}

EndsWithSplit(name) ==
  /\ Len(name) >= 6
  /\ SubSeq(name, Len(name) - 5, Len(name)) = <<"_">> \o SPLIT

\* C29: when the download succeeded for a folder name ending in "_split", the files
\* of the project come from an archive folder whose name ends in "_split".
C29_SplitTemplateOnly ==
  (IsSome(extracted) /\ IsSome(project) /\ EndsWithSplit(project.val.remote_folder)) =>
    EndsWithSplit(extracted.val)

---------------------------------------------------------------------------
(* Properties of names: the build's base name and the uf2_key *)

\* C28: every file a build writes has the project name (the keyboard name with its
\* spaces replaced by underscores), followed by _central or _peripheral in a split
\* build, as its base name, and no file name holds a space.
C28_OutputNamedAfterProject ==
  (UnibodyDescription \/ SplitDescription) =>
    \A i \in 1..Len(writes) :
      /\ Stem(writes[i].path) =
           (IF IsSome(writes[i].side)
              THEN ProjectName(config.val) \o <<"_">> \o writes[i].side.val
              ELSE ProjectName(config.val))
      /\ \A k \in 1..Len(writes[i].path) : writes[i].path[k] # " "

\* C30: deriving the uf2_key never fails: no invocation ends in a panic, and the
\* uf2_key of a ProjectInfo of the root crate is the first 7 characters of a chip
\* name that starts with "stm32" (the whole name when it is shorter) and the chip
\* name itself otherwise.
C30_Uf2KeyNeverFails ==
  /\ ~HasError("Panic")
  /\ (crate = "root" /\ IsSome(project)) =>
       project.val.uf2_key =
         (IF starts_with(project.val.chip, STM32) /\ Len(project.val.chip) > 7
            THEN SubSeq(project.val.chip, 1, 7)
            ELSE project.val.chip)

=============================================================================
